---------------------------- MODULE Spec2Model ----------------------------
(***************************************************************************)
(* A model of mp3_to_text.py: one run of main() as a state machine.        *)
(*                                                                         *)
(* The command line is drawn in Init.  The file system, the audio library  *)
(* and the remote service are the environment: what they answer is chosen  *)
(* with \E at the step that asks.  A KeyboardInterrupt can arrive at every *)
(* step of the run.                                                        *)
(*                                                                         *)
(* Strings that the program inspects (the MM:SS arguments) are sequences   *)
(* of one-character strings.  An optional argument is a record             *)
(* [given, str]; Python's None is given = FALSE.                           *)
(***************************************************************************)
EXTENDS Integers, Sequences, FiniteSets, TLC

\* ------------------------------------------------------------------ bounds

\* Audio durations offered by the environment: 0 .. MaxDurSec seconds.
MaxDurSec == 2

\* -------------------------------------------------------- program constants

MAX_FILE_SIZE_MB == 20

BytesPerMB == 1024 * 1024

\* file_size_mb < MAX_FILE_SIZE_MB, with file_size_mb = bytes / (1024 * 1024):
\* the division by a power of two is exact, so the comparison is on bytes.
BelowLimit(bytes) == bytes < MAX_FILE_SIZE_MB * BytesPerMB

\* ----------------------------------------------------- optional arguments

None == [given |-> FALSE, str |-> <<>>]

Str(s) == [given |-> TRUE, str |-> s]

\* Python truthiness of an Optional[str]: None and "" are false.
Truthy(a) == a.given /\ Len(a.str) > 0

\* ------------------------------------------------------------ parse_time

Digits == {"0", "1", "2", "3", "4", "5", "6", "7", "8", "9"}

DigitVal(c) ==
    CASE c = "0" -> 0 [] c = "1" -> 1 [] c = "2" -> 2 [] c = "3" -> 3
      [] c = "4" -> 4 [] c = "5" -> 5 [] c = "6" -> 6 [] c = "7" -> 7
      [] c = "8" -> 8 [] c = "9" -> 9

\* str.split(sep): the pieces between the separators, empty pieces kept.
RECURSIVE Split(_, _)
Split(s, sep) ==
    IF \A i \in 1..Len(s) : s[i] # sep
    THEN <<s>>
    ELSE LET i == CHOOSE k \in 1..Len(s) :
                      s[k] = sep /\ \A j \in 1..(k - 1) : s[j] # sep
         IN  <<SubSeq(s, 1, i - 1)>> \o Split(SubSeq(s, i + 1, Len(s)), sep)

HasSign(p) == Len(p) > 0 /\ p[1] \in {"-", "+"}

Body(p) == IF HasSign(p) THEN SubSeq(p, 2, Len(p)) ELSE p

\* int(p) accepts an optional sign followed by at least one decimal digit.
IsIntLiteral(p) ==
    /\ Len(Body(p)) > 0
    /\ \A i \in 1..Len(Body(p)) : Body(p)[i] \in Digits

RECURSIVE DigitsVal(_)
DigitsVal(d) ==
    IF Len(d) = 0 THEN 0
    ELSE 10 * DigitsVal(SubSeq(d, 1, Len(d) - 1)) + DigitVal(d[Len(d)])

IntOf(p) ==
    IF HasSign(p) /\ p[1] = "-" THEN 0 - DigitsVal(Body(p)) ELSE DigitsVal(Body(p))

\* parse_time: [ok |-> TRUE, ms] or, on ValueError, [ok |-> FALSE].
ParseTime(s) ==
    LET parts == Split(s, ":")
    IN  IF Len(parts) # 2 \/ ~IsIntLiteral(parts[1]) \/ ~IsIntLiteral(parts[2])
        THEN [ok |-> FALSE, ms |-> 0]
        ELSE [ok |-> TRUE, ms |-> (IntOf(parts[1]) * 60 + IntOf(parts[2])) * 1000]

\* ------------------------------------------------------- decision helpers

\* trim_audio's two range checks, in the order the code makes them.
RangeError_StrictOnly(start_ms, end_ms, len) ==
    IF start_ms > end_ms THEN "InvalidRange"
    ELSE IF start_ms > len THEN "StartExceedsDuration"
    ELSE "none"

RangeError(start_ms, end_ms, len) ==
    IF start_ms >= end_ms THEN "InvalidRange"
    ELSE IF start_ms > len THEN "StartExceedsDuration"
    ELSE "none"

\* main: physical trimming is asked for.
PhysicalTrim_IgnoreTimestamps(start, end, use_timestamps) ==
    Truthy(start) \/ Truthy(end)

PhysicalTrim(start, end, use_timestamps) ==
    (Truthy(start) \/ Truthy(end)) /\ ~use_timestamps

\* main: inline or upload, from the size and the --inline flag.
Strategy_InlineForced(bytes, inline) ==
    IF inline \/ BelowLimit(bytes) THEN "Inline" ELSE "Upload"

Strategy(bytes, inline) ==
    IF inline \/ BelowLimit(bytes)
    THEN IF ~BelowLimit(bytes) THEN "Upload" ELSE "Inline"
    ELSE "Upload"

\* transcribe: which prompt is built.
PromptFor(use_timestamps, start, end) ==
    IF use_timestamps /\ Truthy(start) /\ Truthy(end) THEN "range" ELSE "generic"

\* upload_file: what the loop and the check after it do with a state.
PollVerdict_NoStateCheck(state) ==
    IF state = "PROCESSING" THEN "wait" ELSE "ok"

PollVerdict(state) ==
    IF state = "PROCESSING" THEN "wait"
    ELSE IF state # "ACTIVE" THEN "fail"
    ELSE "ok"

\* main: a summary is asked for.
WantsSummary_Always(summary) == TRUE

WantsSummary(summary) == summary

\* ------------------------------------------------------------------ state

VARIABLES
    args,      \* the parsed command line (argparse namespace, plus the credential)
    pc,        \* where main() is
    locals,    \* main's and the called methods' local variables
    fs,        \* the local file system: sizes, the temporary file, the outputs
    remote,    \* the remote service: the uploaded resource, the calls received
    hist,      \* what has happened: first fatal error, warnings, interruption,
               \* whether the temporary file was made, the range checks run
    exitCode   \* the process's exit status, -1 while it runs

vars == <<args, pc, locals, fs, remote, hist, exitCode>>

\* --start / --end values tried: absent, empty, well formed, malformed.
TimeArgs ==
    { None,
      Str(<<>>),
      Str(<<"0", ":", "1">>),
      Str(<<"0", ":", "2">>),
      Str(<<"1", ":", "x">>),
      Str(<<"1", ":", "2", ":", "3">>) }

\* len(audio) in milliseconds.
Durations == { s * 1000 : s \in 0..MaxDurSec }

\* File sizes on either side of the inline limit, in bytes.
Sizes ==
    { MAX_FILE_SIZE_MB * BytesPerMB - 1,
      MAX_FILE_SIZE_MB * BytesPerMB }

\* States a remote file can be reported in.
FileStates == {"PROCESSING", "ACTIVE", "FAILED"}

\* Exit status of an uncaught KeyboardInterrupt: 1, or 130 (death by SIGINT)
\* on interpreters that re-raise the signal.
UncaughtInterruptStatus == {1, 130}

ArgSpace ==
    [ api_key        : BOOLEAN,
      start          : TimeArgs,
      end            : TimeArgs,
      use_timestamps : BOOLEAN,
      inline         : BOOLEAN,
      keep_uploaded  : BOOLEAN,
      summary        : BOOLEAN ]

\* State after parser.parse_args() (line 270).
Init ==
    /\ args \in ArgSpace
    /\ pc = "get_key"
    /\ locals = [ temp_file |-> "None", uploaded_file |-> FALSE,
                  file_size |-> -1, audio_len |-> -1,
                  start_ms |-> 0, end_ms |-> 0,
                  audio_content |-> "None", strategy |-> "None",
                  prompt |-> "None", exc |-> "none", pending |-> "none" ]
    /\ fs = [ inputSize |-> -1, tempExists |-> FALSE, tempSize |-> -1,
              transcript |-> FALSE, summary |-> FALSE ]
    /\ remote = [ exists |-> FALSE, state |-> "NONE", calls |-> {} ]
    /\ hist = [ err |-> "none", warnings |-> {}, interrupted |-> FALSE,
                tempCreated |-> FALSE, rangeChecked |-> FALSE ]
    /\ exitCode = -1

\* ---------------------------------------------------------------- helpers

\* An exception of the given kind leaves the try body (lines 353-358 decide).
Raise(kind) ==
    /\ pc' = "except"
    /\ locals' = [locals EXCEPT !.exc = kind]
    /\ hist' = [hist EXCEPT !.err = IF @ = "none" THEN kind ELSE @]

Goto(label) == pc' = label

\* The remote service receives a call.
Called(r, call) == [r EXCEPT !.calls = @ \cup {call}]

\* The process ends: falling off main, sys.exit(1), or an uncaught interrupt.
Terminate(pending) ==
    /\ pc' = "exit"
    /\ exitCode' \in ( CASE pending = "return" -> {0}
                         [] pending = "exit1"  -> {1}
                         [] pending = "kbd"    -> UncaughtInterruptStatus )

\* -------------------------------------------------------------- main, head

\* Lines 272-279: the credential, then temp_file = uploaded_file = None.
GetApiKey ==
    /\ pc = "get_key"
    /\ IF ~args.api_key
       THEN /\ hist' = [hist EXCEPT !.err = "MissingCredential"]
            /\ Terminate("exit1")
       ELSE /\ Goto("validate")
            /\ UNCHANGED <<hist, exitCode>>
    /\ UNCHANGED <<args, locals, fs, remote>>

\* Line 283, validate_file (210-224).
ValidateFile ==
    /\ pc = "validate"
    /\ \E kind \in {"missing", "dir", "badext", "ok"}, size \in Sizes :
         IF kind = "missing" THEN Raise("NotFound") /\ UNCHANGED fs
         ELSE IF kind = "dir" THEN Raise("NotAFile") /\ UNCHANGED fs
         ELSE IF kind = "badext" THEN Raise("UnsupportedFormat") /\ UNCHANGED fs
         ELSE /\ fs' = [fs EXCEPT !.inputSize = size]
              /\ locals' = [locals EXCEPT !.file_size = size]
              /\ Goto("init")
              /\ UNCHANGED hist
    /\ UNCHANGED <<args, remote, exitCode>>

\* A constructor that probes the service with a token count.
InitTranscriber_Probing ==
    /\ pc = "init"
    /\ remote' = Called(remote, "count_tokens")
    /\ Goto("trim_gate")
    /\ UNCHANGED <<args, locals, fs, hist, exitCode>>

\* Lines 287-290, AudioTranscriber.__init__ (26-30): configuration only.
InitTranscriber ==
    /\ pc = "init"
    /\ Goto("trim_gate")
    /\ UNCHANGED <<args, locals, fs, remote, hist, exitCode>>

\* Lines 292-293.
TrimGate ==
    /\ pc = "trim_gate"
    /\ IF PhysicalTrim(args.start, args.end, args.use_timestamps)
       THEN Goto("trim_decode")
       ELSE Goto("prepare")
    /\ UNCHANGED <<args, locals, fs, remote, hist, exitCode>>

\* -------------------------------------------------------------- trim_audio

\* Lines 47-51: the no-op return (main never calls it that way), else
\* AudioSegment.from_file.
TrimDecode ==
    /\ pc = "trim_decode"
    /\ IF ~Truthy(args.start) /\ ~Truthy(args.end)
       THEN Goto("trim_return") /\ UNCHANGED <<locals, hist>>
       ELSE \/ \E d \in Durations :
                 /\ locals' = [locals EXCEPT !.audio_len = d]
                 /\ Goto("trim_parse")
                 /\ UNCHANGED hist
            \/ Raise("DecodeError")
    /\ UNCHANGED <<args, fs, remote, exitCode>>

\* Lines 53-54: start first, then end; an absent bound defaults.
TrimParse ==
    /\ pc = "trim_parse"
    /\ LET s == IF Truthy(args.start) THEN ParseTime(args.start.str)
                ELSE [ok |-> TRUE, ms |-> 0]
           e == IF Truthy(args.end) THEN ParseTime(args.end.str)
                ELSE [ok |-> TRUE, ms |-> locals.audio_len]
       IN  IF ~s.ok \/ ~e.ok
           THEN Raise("InvalidTimeFormat")
           ELSE /\ locals' = [locals EXCEPT !.start_ms = s.ms, !.end_ms = e.ms]
                /\ Goto("trim_check")
                /\ UNCHANGED hist
    /\ UNCHANGED <<args, fs, remote, exitCode>>

\* Lines 56-59.
TrimCheck ==
    /\ pc = "trim_check"
    /\ LET r == RangeError(locals.start_ms, locals.end_ms, locals.audio_len)
       IN  IF r # "none"
           THEN /\ pc' = "except"
                /\ locals' = [locals EXCEPT !.exc = r]
                /\ hist' = [hist EXCEPT !.err = r, !.rangeChecked = TRUE]
           ELSE /\ Goto("trim_mktemp")
                /\ hist' = [hist EXCEPT !.rangeChecked = TRUE]
                /\ UNCHANGED locals
    /\ UNCHANGED <<args, fs, remote, exitCode>>

\* Lines 61-64: NamedTemporaryFile(delete=False) puts the file on disk.
TrimMakeTemp ==
    /\ pc = "trim_mktemp"
    /\ \/ /\ fs' = [fs EXCEPT !.tempExists = TRUE, !.tempSize = 0]
          /\ hist' = [hist EXCEPT !.tempCreated = TRUE]
          /\ Goto("trim_export")
          /\ UNCHANGED locals
       \/ Raise("IOError") /\ UNCHANGED fs
    /\ UNCHANGED <<args, remote, exitCode>>

\* Lines 65-66: export encodes into the file, or raises.
TrimExport ==
    /\ pc = "trim_export"
    /\ \/ \E size \in Sizes :
            /\ fs' = [fs EXCEPT !.tempSize = size]
            /\ Goto("trim_return")
            /\ UNCHANGED <<locals, hist>>
       \/ Raise("ExportError") /\ UNCHANGED fs
    /\ UNCHANGED <<args, remote, exitCode>>

\* Lines 68-71 and 295-296: only now does main's temp_file name the file
\* (the input itself after the no-op return).
TrimReturn ==
    /\ pc = "trim_return"
    /\ locals' = [locals EXCEPT
                    !.temp_file = IF hist.tempCreated THEN "tmp" ELSE "input"]
    /\ Goto("getsize")
    /\ UNCHANGED <<args, fs, remote, hist, exitCode>>

\* Line 297: the size is read again, from the trimmed file.
GetSize ==
    /\ pc = "getsize"
    /\ \/ /\ locals' = [locals EXCEPT
                          !.file_size = IF locals.temp_file = "tmp"
                                        THEN fs.tempSize ELSE fs.inputSize]
          /\ Goto("prepare")
          /\ UNCHANGED hist
       \/ Raise("IOError")
    /\ UNCHANGED <<args, fs, remote, exitCode>>

\* ------------------------------------------------- main, content preparer

\* Lines 300-311: the strategy; the warning when --inline cannot be honoured.
Prepare ==
    /\ pc = "prepare"
    /\ LET s == Strategy(locals.file_size, args.inline)
       IN  /\ locals' = [locals EXCEPT !.strategy = s]
           /\ hist' = [hist EXCEPT !.warnings =
                         IF s = "Upload" /\ args.inline
                         THEN @ \cup {"InlineFallback"} ELSE @]
           /\ Goto(IF s = "Inline" THEN "process_inline" ELSE "upload_call")
    /\ UNCHANGED <<args, fs, remote, exitCode>>

\* process_inline (97-119) and line 307: the bytes are read into the request.
ProcessInline ==
    /\ pc = "process_inline"
    /\ \/ /\ locals' = [locals EXCEPT !.audio_content = "Inline"]
          /\ Goto("build_prompt")
          /\ UNCHANGED hist
       \/ Raise("IOError")
    /\ UNCHANGED <<args, fs, remote, exitCode>>

\* ------------------------------------------------------------- upload_file

\* Lines 75-83: genai.upload_file creates the remote resource, or raises.
UploadCall ==
    /\ pc = "upload_call"
    /\ \/ \E st \in FileStates :
            /\ remote' = [Called(remote, "upload") EXCEPT
                            !.exists = TRUE, !.state = st]
            /\ Goto("poll_check")
            /\ UNCHANGED <<locals, hist>>
       \/ /\ remote' = Called(remote, "upload")
          /\ Raise("RemoteError")
    /\ UNCHANGED <<args, fs, exitCode>>

\* Lines 87 and 91-92: the loop test, and the check once the loop is left.
PollCheck ==
    /\ pc = "poll_check"
    /\ LET v == PollVerdict(remote.state)
       IN  IF v = "wait" THEN Goto("poll_sleep") /\ UNCHANGED <<locals, hist>>
           ELSE IF v = "fail" THEN Raise("UploadFailed")
           ELSE Goto("upload_return") /\ UNCHANGED <<locals, hist>>
    /\ UNCHANGED <<args, fs, remote, exitCode>>

\* Line 88: time.sleep(2).
PollSleep ==
    /\ pc = "poll_sleep"
    /\ Goto("poll_get")
    /\ UNCHANGED <<args, locals, fs, remote, hist, exitCode>>

\* Line 89: genai.get_file reads the state again; the service decides it.
PollGet ==
    /\ pc = "poll_get"
    /\ \/ \E st \in FileStates :
            /\ remote' = [Called(remote, "get_file") EXCEPT !.state = st]
            /\ Goto("poll_check")
            /\ UNCHANGED <<locals, hist>>
       \/ /\ remote' = Called(remote, "get_file")
          /\ Raise("RemoteError")
    /\ UNCHANGED <<args, fs, exitCode>>

\* Lines 94-95 and 304-305 / 310-311: main learns of the handle on return.
UploadReturn ==
    /\ pc = "upload_return"
    /\ locals' = [locals EXCEPT !.audio_content = "RemoteHandle",
                                !.uploaded_file = TRUE]
    /\ Goto("build_prompt")
    /\ UNCHANGED <<args, fs, remote, hist, exitCode>>

\* -------------------------------------------------------------- transcribe

\* Lines 138-143.
BuildPrompt ==
    /\ pc = "build_prompt"
    /\ locals' = [locals EXCEPT
                    !.prompt = PromptFor(args.use_timestamps, args.start, args.end)]
    /\ Goto("count_tokens")
    /\ UNCHANGED <<args, fs, remote, hist, exitCode>>

\* Line 146, count_tokens (121-128): the count or, after a failure, 0; either
\* way only a line is printed and transcribe goes on.
CountTokens ==
    /\ pc = "count_tokens"
    /\ remote' = Called(remote, "count_tokens")
    /\ Goto("generate")
    /\ UNCHANGED <<args, locals, fs, hist, exitCode>>

\* Lines 167-172: generate_content and response.text, or an error.
Generate ==
    /\ pc = "generate"
    /\ remote' = Called(remote, "generate_transcript")
    /\ \/ Goto("save_transcript") /\ UNCHANGED <<locals, hist>>
       \/ Raise("TranscriptionError")
    /\ UNCHANGED <<args, fs, exitCode>>

\* Lines 323-331.
SaveTranscript ==
    /\ pc = "save_transcript"
    /\ \/ /\ fs' = [fs EXCEPT !.transcript = TRUE]
          /\ Goto("summary_gate")
          /\ UNCHANGED <<locals, hist>>
       \/ Raise("IOError") /\ UNCHANGED fs
    /\ UNCHANGED <<args, remote, exitCode>>

\* --------------------------------------------------------------- summarize

\* Line 334.
SummaryGate ==
    /\ pc = "summary_gate"
    /\ IF WantsSummary(args.summary)
       THEN Goto("sum_count")
       ELSE Goto("cleanup_gate")
    /\ UNCHANGED <<args, locals, fs, remote, hist, exitCode>>

\* Line 184, count_tokens (121-128).
SummarizeCount ==
    /\ pc = "sum_count"
    /\ remote' = Called(remote, "count_tokens")
    /\ Goto("sum_generate")
    /\ UNCHANGED <<args, locals, fs, hist, exitCode>>

\* Lines 195-200.
SummarizeGenerate ==
    /\ pc = "sum_generate"
    /\ remote' = Called(remote, "generate_summary")
    /\ \/ Goto("save_summary") /\ UNCHANGED <<locals, hist>>
       \/ Raise("SummarizationError")
    /\ UNCHANGED <<args, fs, exitCode>>

\* Lines 337-345.
SaveSummary ==
    /\ pc = "save_summary"
    /\ \/ /\ fs' = [fs EXCEPT !.summary = TRUE]
          /\ Goto("cleanup_gate")
          /\ UNCHANGED <<locals, hist>>
       \/ Raise("IOError") /\ UNCHANGED fs
    /\ UNCHANGED <<args, remote, exitCode>>

\* ------------------------------------------------------------ remote cleanup

\* Line 348.
CleanupGate ==
    /\ pc = "cleanup_gate"
    /\ IF locals.uploaded_file /\ ~args.keep_uploaded
       THEN Goto("cleanup_file")
       ELSE Goto("completed")
    /\ UNCHANGED <<args, locals, fs, remote, hist, exitCode>>

\* cleanup_file (202-208): the delete; a failure is a warning.
CleanupFile ==
    /\ pc = "cleanup_file"
    /\ \/ /\ remote' = [Called(remote, "delete") EXCEPT !.exists = FALSE]
          /\ UNCHANGED hist
       \/ /\ remote' = Called(remote, "delete")
          /\ hist' = [hist EXCEPT !.warnings = @ \cup {"RemoteCleanup"}]
    /\ Goto("completed")
    /\ UNCHANGED <<args, locals, fs, exitCode>>

\* Line 351: the try body ends normally.
Completed ==
    /\ pc = "completed"
    /\ locals' = [locals EXCEPT !.pending = "return"]
    /\ Goto("finally_check")
    /\ UNCHANGED <<args, fs, remote, hist, exitCode>>

\* ------------------------------------------------- handlers and the finally

\* Lines 353-355.
ExceptKeyboardInterrupt ==
    /\ pc = "except"
    /\ locals.exc = "UserInterrupted"
    /\ locals' = [locals EXCEPT !.pending = "exit1"]
    /\ Goto("finally_check")
    /\ UNCHANGED <<args, fs, remote, hist, exitCode>>

\* Lines 356-358.
ExceptException ==
    /\ pc = "except"
    /\ locals.exc # "UserInterrupted"
    /\ locals' = [locals EXCEPT !.pending = "exit1"]
    /\ Goto("finally_check")
    /\ UNCHANGED <<args, fs, remote, hist, exitCode>>

\* Line 361: temp_file and os.path.exists(temp_file).
FinallyCheck ==
    /\ pc = "finally_check"
    /\ IF locals.temp_file = "tmp" /\ fs.tempExists
       THEN Goto("finally_remove") /\ UNCHANGED exitCode
       ELSE Terminate(locals.pending)
    /\ UNCHANGED <<args, locals, fs, remote, hist>>

\* Lines 362-366: os.remove; a failure is a warning.
FinallyRemove ==
    /\ pc = "finally_remove"
    /\ \/ /\ fs' = [fs EXCEPT !.tempExists = FALSE]
          /\ UNCHANGED hist
       \/ /\ hist' = [hist EXCEPT !.warnings = @ \cup {"TempCleanup"}]
          /\ UNCHANGED fs
    /\ Terminate(locals.pending)
    /\ UNCHANGED <<args, locals, remote>>

\* ---------------------------------------------------------- interruption

TryBody ==
    { "validate", "init", "trim_gate", "trim_decode", "trim_parse",
      "trim_check", "trim_mktemp", "trim_export", "trim_return", "getsize",
      "prepare", "process_inline", "upload_call", "poll_check", "poll_sleep",
      "poll_get", "upload_return", "build_prompt", "count_tokens", "generate",
      "save_transcript", "summary_gate", "sum_count", "sum_generate",
      "save_summary", "cleanup_gate", "cleanup_file", "completed" }

\* KeyboardInterrupt inside the try body (281-351): the handler at 353 gets it.
Interrupt ==
    /\ pc \in TryBody
    /\ pc' = "except"
    /\ locals' = [locals EXCEPT !.exc = "UserInterrupted"]
    /\ hist' = [hist EXCEPT !.interrupted = TRUE,
                            !.err = IF @ = "none" THEN "UserInterrupted" ELSE @]
    /\ UNCHANGED <<args, fs, remote, exitCode>>

\* KeyboardInterrupt before the try (272-279): nothing catches it.
InterruptBeforeTry ==
    /\ pc = "get_key"
    /\ hist' = [hist EXCEPT !.interrupted = TRUE, !.err = "UserInterrupted"]
    /\ Terminate("kbd")
    /\ UNCHANGED <<args, locals, fs, remote>>

\* KeyboardInterrupt inside a handler (354-358): the finally runs, then the
\* interrupt leaves main uncaught.
InterruptInHandler ==
    /\ pc = "except"
    /\ locals' = [locals EXCEPT !.exc = "UserInterrupted", !.pending = "kbd"]
    /\ hist' = [hist EXCEPT !.interrupted = TRUE]
    /\ Goto("finally_check")
    /\ UNCHANGED <<args, fs, remote, exitCode>>

\* KeyboardInterrupt inside the finally (361-366): `except Exception` at 365
\* does not catch it; the rest of the finally is skipped.
InterruptInFinally ==
    /\ pc \in {"finally_check", "finally_remove"}
    /\ hist' = [hist EXCEPT !.interrupted = TRUE,
                            !.err = IF @ = "none" THEN "UserInterrupted" ELSE @]
    /\ Terminate("kbd")
    /\ UNCHANGED <<args, locals, fs, remote>>

\* ---------------------------------------------------------- specifications

Next ==
    \/ GetApiKey
    \/ ValidateFile
    \/ InitTranscriber
    \/ TrimGate
    \/ TrimDecode
    \/ TrimParse
    \/ TrimCheck
    \/ TrimMakeTemp
    \/ TrimExport
    \/ TrimReturn
    \/ GetSize
    \/ Prepare
    \/ ProcessInline
    \/ UploadCall
    \/ PollCheck
    \/ PollSleep
    \/ PollGet
    \/ UploadReturn
    \/ BuildPrompt
    \/ CountTokens
    \/ Generate
    \/ SaveTranscript
    \/ SummaryGate
    \/ SummarizeCount
    \/ SummarizeGenerate
    \/ SaveSummary
    \/ CleanupGate
    \/ CleanupFile
    \/ Completed
    \/ ExceptKeyboardInterrupt
    \/ ExceptException
    \/ FinallyCheck
    \/ FinallyRemove
    \/ Interrupt
    \/ InterruptBeforeTry
    \/ InterruptInHandler
    \/ InterruptInFinally

Spec == Init /\ [][Next]_vars

\* The single thread keeps running while it has a step to take.
FairSpec == Spec /\ WF_vars(Next)

\* ------------------------------------------------------------------ claims

AtExit == pc = "exit"

Malformed(a) == Truthy(a) /\ ~ParseTime(a.str).ok

\* The size the Content Preparer is to decide on.
DecisiveSize == IF locals.temp_file = "tmp" THEN fs.tempSize ELSE fs.inputSize

FormatAndRangeErrors == {"InvalidTimeFormat", "InvalidRange", "StartExceedsDuration"}

ValidationErrors == {"NotFound", "NotAFile", "UnsupportedFormat"}

TrimFailures == FormatAndRangeErrors \cup {"DecodeError", "ExportError"}

InTrim ==
    pc \in { "trim_decode", "trim_parse", "trim_check", "trim_mktemp",
             "trim_export", "trim_return", "getsize" }

InUpload == pc \in {"upload_call", "poll_check", "poll_sleep", "poll_get", "upload_return"}

\* C1: on every exit path, a temporary trimmed file that was created no
\* longer exists when the process exits, unless the delete itself failed.
C1_TempFileGoneAtExit ==
    (AtExit /\ hist.tempCreated /\ "TempCleanup" \notin hist.warnings)
        => ~fs.tempExists

\* C2: when the upload created a remote resource and --keep-uploaded was not
\* given, a delete has been attempted by the time the process exits, also
\* after a later remote call failed; with --keep-uploaded none ever is.
C2_RemoteDeleteAttempted ==
    /\ args.keep_uploaded => "delete" \notin remote.calls
    /\ ( /\ AtExit
         /\ remote.state # "NONE"
         /\ ~args.keep_uploaded
         /\ ~hist.interrupted )
       => "delete" \in remote.calls

\* C3: the exit code is 0 exactly when the pipeline succeeded (transcript
\* written, summary written when requested) and 1 on every fatal error,
\* user interruption included; cleanup warnings do not change it.
C3_ExitCode ==
    AtExit =>
        /\ exitCode \in {0, 1}
        /\ exitCode = 0 <=> hist.err = "none"
        /\ exitCode = 0 => fs.transcript /\ (args.summary => fs.summary)

\* C4: a validation error, a time-format error or a range error aborts the
\* run before any remote call has been made and before any output is written.
C4_ErrorsBeforeRemote ==
    hist.err \in (ValidationErrors \cup FormatAndRangeErrors) =>
        /\ remote.calls = {}
        /\ ~fs.transcript /\ ~fs.summary
        /\ AtExit => exitCode # 0

C4_Witness ==
    AtExit /\ hist.err = "InvalidRange" /\ exitCode = 1

\* C5: once the strategy is chosen it is Inline if and only if the size is
\* below the 20 MB limit, the size being the trimmed file's when trimming took
\* place; --inline at or above the limit gives upload, with a warning.
C5_InlineIffBelowLimit ==
    locals.strategy # "None" =>
        /\ locals.strategy = "Inline" <=> BelowLimit(DecisiveSize)
        /\ (locals.strategy = "Upload" /\ args.inline)
               => "InlineFallback" \in hist.warnings
        /\ locals.audio_content = "Inline" => locals.strategy = "Inline"
        /\ locals.audio_content = "RemoteHandle" => locals.strategy = "Upload"
        /\ "upload" \in remote.calls => locals.strategy = "Upload"

C5_Witness ==
    /\ locals.audio_content = "RemoteHandle"
    /\ args.inline
    /\ locals.temp_file = "tmp"
    /\ BelowLimit(fs.inputSize)
    /\ ~BelowLimit(fs.tempSize)

\* C6: the summarization call is made only with --summary and only once the
\* transcript is written; without --summary there is no summary file; a
\* failed summarization leaves the transcript in place.
C6_SummaryAfterTranscript ==
    /\ "generate_summary" \in remote.calls => args.summary /\ fs.transcript
    /\ pc \in {"sum_count", "sum_generate", "save_summary"}
           => args.summary /\ fs.transcript
    /\ ~args.summary => ~fs.summary
    /\ hist.err = "SummarizationError" => fs.transcript /\ ~fs.summary

C6_Witness ==
    AtExit /\ hist.err = "SummarizationError" /\ fs.transcript /\ exitCode = 1

\* C7: a temporary sliced file is made, before any remote call, if and only
\* if --start or --end is given (non-empty) without --use-timestamps; the
\* prompt names the range if and only if --use-timestamps, --start and --end
\* are all given; never both in one run.
C7_TrimXorRangePrompt ==
    LET asked == (Truthy(args.start) \/ Truthy(args.end)) /\ ~args.use_timestamps
    IN  /\ InTrim => asked /\ remote.calls = {}
        /\ hist.tempCreated => asked
        /\ locals.strategy # "None" => (hist.tempCreated <=> asked)
        /\ locals.prompt # "None" =>
               ( locals.prompt = "range" <=>
                   args.use_timestamps /\ Truthy(args.start) /\ Truthy(args.end) )
        /\ ~(hist.tempCreated /\ locals.prompt = "range")

C7_Witness ==
    /\ AtExit /\ exitCode = 0
    /\ hist.tempCreated
    /\ locals.prompt = "generic"
    /\ Truthy(args.start) /\ Truthy(args.end)

\* C8: a run given a malformed --start or --end never succeeds, whatever the
\* other flags, and a malformed time string is never in a prompt that is sent.
C8_MalformedRejected ==
    (Malformed(args.start) \/ Malformed(args.end)) =>
        /\ AtExit => exitCode # 0
        /\ "generate_transcript" \in remote.calls => locals.prompt # "range"

\* C9 as claimed: InvalidRange whenever start >= end, StartExceedsDuration
\* whenever start is beyond the duration, a temporary file only for a good
\* range and none when trim_audio fails.
C9_Original ==
    /\ hist.rangeChecked =>
          /\ locals.start_ms >= locals.end_ms => hist.err = "InvalidRange"
          /\ locals.start_ms > locals.audio_len => hist.err = "StartExceedsDuration"
    /\ hist.tempCreated =>
          locals.start_ms < locals.end_ms /\ locals.start_ms <= locals.audio_len
    /\ hist.err \in TrimFailures => ~hist.tempCreated

\* C9 as amended: InvalidRange whenever start >= end (so also when --end is
\* omitted and start is at or beyond the duration), StartExceedsDuration
\* whenever start < end and start is beyond the duration; the temporary file
\* is created only after both checks passed, so none exists after a format or
\* range failure, while a failed export leaves the created file.
C9_RangeChecks ==
    /\ hist.rangeChecked =>
          /\ locals.start_ms >= locals.end_ms => hist.err = "InvalidRange"
          /\ (locals.start_ms < locals.end_ms /\ locals.start_ms > locals.audio_len)
                 => hist.err = "StartExceedsDuration"
          /\ (locals.start_ms < locals.end_ms /\ locals.start_ms <= locals.audio_len)
                 => hist.err \notin FormatAndRangeErrors
          /\ ~Truthy(args.end) => locals.end_ms = locals.audio_len
    /\ hist.tempCreated =>
          /\ hist.rangeChecked
          /\ locals.start_ms < locals.end_ms
          /\ locals.start_ms <= locals.audio_len
    /\ hist.err \in FormatAndRangeErrors => ~hist.tempCreated
    /\ hist.err = "ExportError" => hist.tempCreated

C9_Witness ==
    /\ AtExit
    /\ hist.err = "StartExceedsDuration"
    /\ ~hist.tempCreated

\* What holds of the polling loop at every step.
C10_Safe ==
    /\ pc \in {"poll_sleep", "poll_get"} => remote.state = "PROCESSING"
    /\ pc = "upload_return" => remote.state = "ACTIVE"
    /\ locals.audio_content = "RemoteHandle" => remote.state = "ACTIVE"
    /\ hist.err = "UploadFailed" => remote.state = "FAILED"
    /\ (remote.state = "FAILED" /\ pc # "poll_check") => hist.err # "none"

\* C10 as claimed: the loop is bounded, upload_file always terminates.
C10_Original ==
    /\ []C10_Safe
    /\ InUpload ~> ~InUpload

\* C10 as amended: the loop has no bound of its own; upload_file terminates
\* unless the service reports "processing" at every poll for ever.  It polls
\* only while the state is "processing", returns only an "active" handle and
\* fails with UploadFailed on any other state.
C10_PollingLoop ==
    /\ []C10_Safe
    /\ \/ <>[](InUpload /\ remote.state = "PROCESSING")
       \/ InUpload ~> ~InUpload

C10_Witness ==
    /\ pc = "upload_return"
    /\ "get_file" \in remote.calls
    /\ remote.state = "ACTIVE"

=============================================================================
